---- MODULE Spec2Model ----
(***************************************************************************)
(* Model of proto-ai-backend: the chunked-upload session manager           *)
(* (ChunkedUploadController in src/src/config/database.ts, the request     *)
(* validation in src/src/middleware/security.ts), the upload of whole      *)
(* images (ImageController.uploadImage), the validation pipeline           *)
(* (src/src/services/imageProcessingService.ts), the job queue             *)
(* (src/src/services/queueService.ts) and the image-events channel         *)
(* (src/src/services/redis.service.ts).  Each part has its own             *)
(* specification over the same variables.                                  *)
(*                                                                         *)
(* Every request handler is an async function: it runs synchronously up    *)
(* to an `await`, and other handlers run while it waits.  An action of     *)
(* this model is the effect of one awaited call together with the          *)
(* synchronous code that follows it; where that synchronous code touches   *)
(* the shared chunkStorage map the awaited session update and the          *)
(* continuation are two actions, so that every interleaving of the         *)
(* handlers is a behaviour of the model.                                   *)
(*                                                                         *)
(* chunkStorage maps a session id to a JavaScript array object; handlers   *)
(* keep a reference to the array across awaits, so the arrays live in a    *)
(* heap and the map and the handlers hold array ids.                       *)
(*                                                                         *)
(* Calls that touch no shared state (convertToFormat, validateImage,       *)
(* getImageMetadata, getSignedDownloadUrl) are taken together with the     *)
(* step next to them; each of them may answer or throw.  An awaited        *)
(* session update may reject: inside the completion sequence that is the   *)
(* inner catch (as for a failed upload to storage), outside of it the      *)
(* outer catch of the handler.  A rejection before anything is written     *)
(* leaves no trace and is not a step of the model.                         *)
(***************************************************************************)
EXTENDS Integers, Sequences, FiniteSets, TLC

\* ---- bounds of the model -------------------------------------------------
MaxSessions == 2
MaxReqs == 2
MaxTotal == 2
MaxAccepted == 2
MaxKeys == 8

\* ---- program constants ---------------------------------------------------
MinTotalChunks == 1
MaxTotalChunks == 1000
MinChunkIndex == 0

\* ---- value sets ----------------------------------------------------------
Bytes == {"a", "b"}
Reqs == 1..MaxReqs
TotalChunksInputs == 0..MaxTotal
ChunkIndexInputs == (0 - 1)..MaxTotal
ArrayIds == 1..(MaxSessions + MaxReqs)

NoSessionId == 0
UnknownId == 0 - 1
NoArray == 0
NoKey == 0
Hole == "hole"

Terminal == {"COMPLETED", "FAILED", "EXPIRED"}

VARIABLES
    uploadSession,   \* the UploadSession table: a sequence of rows, id = position
    chunkStorage,    \* Map<sessionId, Buffer[]>: session id -> array id or NoArray
    heap,            \* the array objects: array id -> sequence of slots
    image,           \* the Image table: set of records
    blobs,           \* keys written to blob storage
    accepted,        \* the number of requests accepted so far
    req,             \* the request handlers in flight, one record per slot
    sweep,           \* the cleanupExpiredSessions run
    validation,      \* a call of validateImage: its input and its result
    job,             \* a job of the image-processing queue
    bus              \* the image-events channel: publisher, subscriber, handlers

vars == <<uploadSession, chunkStorage, heap, image, blobs, accepted, req, sweep,
          validation, job, bus>>

\* ---- JavaScript arrays ---------------------------------------------------
\* new Array(n): length n, every slot empty
NewArray(n) == [i \in 1..n |-> Hole]

\* arr[index] = value; writing past the end extends the array with empty slots
ArraySet(arr, index, value) ==
    IF index < Len(arr)
    THEN [arr EXCEPT ![index + 1] = value]
    ELSE [i \in 1..(index + 1) |->
            IF i <= Len(arr) THEN arr[i] ELSE IF i = index + 1 THEN value ELSE Hole]

\* arr.every(chunk => chunk !== undefined): Array.prototype.every calls the
\* callback only for the indices that hold an element and skips empty slots;
\* the elements stored are Buffers, none of them is the value undefined.
Undefined == "undefined"
ArrayEvery(arr) == \A i \in 1..Len(arr) : arr[i] # Hole => arr[i] # Undefined

\* Buffer.concat(list) reads list[i].length for every i < list.length and
\* throws a TypeError on an empty slot
ConcatThrows(arr) == \E i \in 1..Len(arr) : arr[i] = Hole
BufferConcat(arr) == arr

\* ---- request validation (validateChunkUpload) ----------------------------
ValidateChunkUpload(totalChunks, chunkIndex) ==
    /\ totalChunks >= MinTotalChunks
    /\ totalChunks <= MaxTotalChunks
    /\ chunkIndex >= MinChunkIndex

\* ---- the session table ---------------------------------------------------
SessionIds == 1..Len(uploadSession)

\* prisma.uploadSession.create: status and uploadedChunks take their defaults
NewSession(totalChunks) ==
    [totalChunks |-> totalChunks, uploadedChunks |-> 0, status |-> "IN_PROGRESS",
     s3Key |-> NoKey, expired |-> FALSE]

\* the progress written by uploadChunk
UploadedChunks(chunkIndex) == chunkIndex + 1

\* the statuses the handlers write
\* (a cancel that would put the session back to work)
CancelStatusReopens == "IN_PROGRESS"
CancelStatus == "FAILED"
FailedStatus == "FAILED"
CompletedStatus == "COMPLETED"
ExpiredStatus == "EXPIRED"

\* chunkStorage.delete(id)
\* (a delete that would empty the whole map)
MapClear(map, id) == [s \in DOMAIN map |-> NoArray]
MapDelete(map, id) == [map EXCEPT ![id] = NoArray]

\* ---- the heap ------------------------------------------------------------
LiveArrays(map, rq) ==
    {map[s] : s \in DOMAIN map} \cup {rq[r].chunks : r \in DOMAIN rq}

\* an array nobody references is garbage; its id is reused
Collect(h, map, rq) ==
    [a \in ArrayIds |-> IF a \in LiveArrays(map, rq) THEN h[a] ELSE <<>>]

FreshArray == CHOOSE a \in ArrayIds :
                 /\ a \notin LiveArrays(chunkStorage, req)
                 /\ \A b \in ArrayIds : b \notin LiveArrays(chunkStorage, req) => a <= b

\* ---- request records -----------------------------------------------------
\* the locals of a handler; a local is reset once the handler no longer reads
\* it.  replay and cancelled are history marks, not program state.
IdleReq ==
    [op |-> "none", pc |-> "idle", sessionId |-> NoSessionId, session |-> NoSessionId,
     chunkIndex |-> 0, chunks |-> NoArray, hash |-> <<>>, s3Key |-> NoKey,
     resp |-> "none", replay |-> FALSE, cancelled |-> FALSE]

Free(r) == req[r].pc = "idle"
InFlight(r) == ~Free(r)

\* a request is served by the lowest free handler slot; the model accepts
\* MaxAccepted requests
AcceptsWithin(r, budget) ==
    /\ Free(r)
    /\ \A q \in Reqs : q < r => InFlight(q)
    /\ accepted < budget
Accepts(r) == AcceptsWithin(r, MaxAccepted)

\* no call of validateImage yet
NoInput ==
    [decodable |-> TRUE, width |-> 0, height |-> 0, format |-> "unknown",
     size |-> 0, blur |-> [failed |-> FALSE, score |-> 0],
     faces |-> [failed |-> FALSE, sizes |-> <<>>], buffer |-> <<>>]
NoResult ==
    [isValid |-> FALSE, errors |-> <<>>,
     metadata |-> [width |-> 0, height |-> 0, size |-> 0, format |-> "unknown",
                   blurScore |-> 0 - 1, faceCount |-> 0 - 1, faceSize |-> 0 - 1,
                   hash |-> <<>>]]
NoValidation == [pc |-> "idle", input |-> NoInput, result |-> NoResult]

\* no job in the queue yet
NoJob == [state |-> "none", name |-> "none", target |-> "none", attemptsMade |-> 0,
          remaining |-> 0, waited |-> <<>>, logged |-> "none"]

\* the image-events channel before anybody has subscribed or published
MaxHandlers == 2
Handlers == 1..MaxHandlers
NotSubscribed == 0 - 1
NoPublish == [seq |-> 0, reached |-> FALSE, subscribed |-> FALSE,
              outcome |-> [result |-> "none", receivers |-> 0]]
NoBus ==
    [subscribed |-> FALSE, inbox |-> <<>>, resolved |-> {}, listeners |-> <<>>,
     calls |-> [h \in Handlers |-> <<>>], published |-> <<>>,
     since |-> [h \in Handlers |-> NotSubscribed], lastPublish |-> NoPublish]

Init ==
    /\ validation = NoValidation
    /\ job = NoJob
    /\ bus = NoBus
    /\ uploadSession = <<>>
    /\ chunkStorage = [s \in 1..MaxSessions |-> NoArray]
    /\ heap = [a \in ArrayIds |-> <<>>]
    /\ image = {}
    /\ blobs = {}
    /\ accepted = 0
    /\ req = [r \in Reqs |-> IdleReq]
    /\ sweep = [pc |-> "idle", pending |-> {}, current |-> NoSessionId]

\* ---- uploadChunk ---------------------------------------------------------
\* the pcs of a handler that is inside the reassemble-validate-persist
\* sequence and has not yet written the image record
BeforeCommit == {"dupcheck", "s3upload", "create"}
InSequence == BeforeCommit \cup {"complete_update", "complete_cleanup"}

\* the append re-sends the bytes the session was completed with: the session
\* is COMPLETED, has one chunk, and its image record carries the hash of
\* exactly these bytes at index 0
IsReplay(id, chunkIndex, chunkData) ==
    /\ id \in SessionIds
    /\ uploadSession[id].status = "COMPLETED"
    /\ uploadSession[id].totalChunks = 1
    /\ chunkIndex = 0
    /\ \E im \in image : im.s3Key = uploadSession[id].s3Key /\ im.hash = <<chunkData>>

\* lines 718-754: the request passes validateChunkUpload (a request that
\* does not is answered 400 and changes nothing); the session is found or
\* created; the chunk is decoded and stored
\* (the request is one of `budget` requests, its body drawn from the sets)
uploadChunkStoreIn(r, budget, sessionIdInputs, totalChunksInputs, chunkIndexInputs) ==
    /\ AcceptsWithin(r, budget)
    /\ \E sessionId \in sessionIdInputs,
          totalChunks \in totalChunksInputs, chunkIndex \in chunkIndexInputs,
          chunkData \in Bytes :
          LET found == sessionId \in SessionIds
              id == IF found THEN sessionId ELSE Len(uploadSession) + 1
              has == chunkStorage[id] # NoArray
              a == IF has THEN chunkStorage[id] ELSE FreshArray
              old == IF has THEN heap[a] ELSE NewArray(totalChunks)
          IN  /\ ValidateChunkUpload(totalChunks, chunkIndex)
              /\ found \/ Len(uploadSession) < MaxSessions
              /\ uploadSession' = IF found THEN uploadSession
                                  ELSE Append(uploadSession, NewSession(totalChunks))
              /\ chunkStorage' = [chunkStorage EXCEPT ![id] = a]
              /\ heap' = [heap EXCEPT ![a] = ArraySet(old, chunkIndex, chunkData)]
              /\ req' = [req EXCEPT ![r] =
                           [IdleReq EXCEPT !.op = "upload", !.pc = "progress",
                              !.sessionId = sessionId, !.session = id,
                              !.chunkIndex = chunkIndex, !.chunks = a,
                              !.replay = IsReplay(sessionId, chunkIndex, chunkData)]]
    /\ accepted' = accepted + 1
    /\ UNCHANGED <<image, blobs, sweep, validation, job, bus>>

uploadChunkStore(r) ==
    uploadChunkStoreIn(r, MaxAccepted, {NoSessionId, UnknownId} \cup SessionIds,
                       TotalChunksInputs, ChunkIndexInputs)

\* lines 756-762: the awaited session update takes effect
uploadChunkProgress(r) ==
    /\ req[r].pc = "progress"
    /\ uploadSession' = [uploadSession EXCEPT
                           ![req[r].session].uploadedChunks = UploadedChunks(req[r].chunkIndex)]
    /\ req' = [req EXCEPT ![r].pc = "check", ![r].sessionId = NoSessionId,
                           ![r].chunkIndex = 0]
    /\ UNCHANGED <<chunkStorage, heap, image, blobs, sweep, accepted, validation, job, bus>>

\* the handler returns; the slot keeps the mark of a replayed append
Respond(rec) ==
    IF rec.replay THEN [IdleReq EXCEPT !.replay = TRUE, !.session = rec.session]
    ELSE IdleReq

\* the catch block of the completion sequence (lines 901-914) is entered
Fail(rec, resp) ==
    [rec EXCEPT !.pc = "fail_update", !.resp = resp, !.chunks = NoArray,
                !.hash = <<>>, !.s3Key = NoKey, !.cancelled = FALSE]
Throw(rec) == Fail(rec, "error")

\* lines 830-832: the storage key `images/${timestamp}-${filename}` is a key
\* no blob and no handler in flight has
Keys == 1..MaxKeys
FreshKey == CHOOSE k \in Keys :
               /\ k \notin blobs \cup {req[q].s3Key : q \in Reqs}
               /\ \A j \in Keys : j \notin blobs \cup {req[q].s3Key : q \in Reqs} => k <= j

\* generateImageHash: sha256 of the buffer, modelled as the buffer itself;
\* NoHash is the hash a ValidationResult without metadata.hash carries
Hash(buffer) == buffer
NoHash == <<>>

\* lines 776-789: convertToFormat returns the buffer it was given, returns
\* a converted buffer, or throws (the empty buffer stands for the throw)
ConvertedBuffer(buffer) == <<"jpeg">> \o buffer
ConvertOutcomes(heic, buffer) ==
    IF heic THEN {buffer, ConvertedBuffer(buffer), <<>>} ELSE {buffer}

\* lines 791-832: what the handler does with the verdict of validateImage:
\* an invalid image goes to the FAILED update, a valid one with a hash to the
\* duplicate check, a valid one without a hash (the heic/heif early exit of
\* validateImage) straight to the upload under a fresh key
AfterValidate(rec, verdict, processedBuffer) ==
    CASE verdict = "invalid" ->
           Fail(rec, "validation_failed")
      [] verdict = "valid" ->
           [rec EXCEPT !.pc = "dupcheck", !.hash = Hash(processedBuffer)]
      [] verdict = "valid_nohash" ->
           [rec EXCEPT !.pc = "s3upload", !.hash = NoHash, !.s3Key = FreshKey]

\* lines 764-809 and 915-928: the completeness check and the reassembly, on
\* the array the handler took before the await; then the conversion of a
\* heic upload and validateImage, which touch no shared state
uploadChunkCheck(r) ==
    /\ req[r].pc = "check"
    /\ \E heic \in BOOLEAN, verdict \in {"invalid", "valid", "valid_nohash"} :
         LET arr == heap[req[r].chunks]
             allChunksReceived == ArrayEvery(arr)
             rec == [req[r] EXCEPT !.chunks = NoArray]
         IN  /\ \E processedBuffer \in ConvertOutcomes(heic, BufferConcat(arr)) :
                   req' = [req EXCEPT ![r] =
                             IF ~allChunksReceived THEN Respond(rec)
                             ELSE IF ConcatThrows(arr) \/ processedBuffer = <<>> THEN Throw(rec)
                             ELSE AfterValidate(rec, verdict, processedBuffer)]
             /\ heap' = Collect(heap, chunkStorage, req')
    /\ UNCHANGED <<uploadSession, chunkStorage, image, blobs, sweep, accepted, validation, job, bus>>

\* checkForDuplicates(hash): prisma.image.findFirst({ where: { hash } })
\* answers with the record it found; when the query rejects, the catch of
\* checkForDuplicates answers false
checkForDuplicates(hash, answered) ==
    IF answered THEN \E im \in image : im.hash = hash ELSE FALSE

\* lines 811-832: the duplicate check answers
uploadChunkDupCheck(r) ==
    /\ req[r].pc = "dupcheck"
    /\ \E answered \in BOOLEAN :
         LET isDuplicate == checkForDuplicates(req[r].hash, answered)
         IN  req' = [req EXCEPT ![r] =
                        IF isDuplicate
                        THEN Fail(@, "duplicate")
                        ELSE [@ EXCEPT !.pc = "s3upload", !.s3Key = FreshKey]]
    /\ UNCHANGED <<uploadSession, chunkStorage, heap, image, blobs, sweep, accepted, validation, job, bus>>

\* lines 834-840: s3Service.uploadFile writes the blob or throws; then
\* getImageMetadata answers or throws
uploadChunkS3Upload(r) ==
    /\ req[r].pc = "s3upload"
    /\ \E uploaded \in BOOLEAN, metadata \in BOOLEAN :
          /\ req' = [req EXCEPT ![r] =
                       IF uploaded /\ metadata THEN [@ EXCEPT !.pc = "create"] ELSE Throw(@)]
          /\ blobs' = IF uploaded THEN blobs \cup {req[r].s3Key} ELSE blobs
    /\ UNCHANGED <<uploadSession, chunkStorage, heap, image, sweep, accepted, validation, job, bus>>

\* lines 842-862: prisma.image.create writes the record or throws
NewImage(rec) == [s3Key |-> rec.s3Key, status |-> "VALIDATED", hash |-> rec.hash]
uploadChunkCreate(r) ==
    /\ req[r].pc = "create"
    /\ \E ok \in BOOLEAN :
          /\ req' = [req EXCEPT ![r] =
                       IF ok THEN [@ EXCEPT !.pc = "complete_update"] ELSE Throw(@)]
          /\ image' = IF ok THEN image \cup {NewImage(req[r])} ELSE image
    /\ UNCHANGED <<uploadSession, chunkStorage, heap, blobs, sweep, accepted, validation, job, bus>>

\* lines 864-871: the awaited COMPLETED update takes effect
uploadChunkCompleteUpdate(r) ==
    /\ req[r].pc = "complete_update"
    /\ uploadSession' = [uploadSession EXCEPT
                           ![req[r].session].status = CompletedStatus,
                           ![req[r].session].s3Key = req[r].s3Key]
    /\ req' = [req EXCEPT ![r].pc = "complete_cleanup", ![r].hash = <<>>,
                           ![r].s3Key = NoKey]
    /\ UNCHANGED <<chunkStorage, heap, image, blobs, sweep, accepted, validation, job, bus>>

\* lines 873-900: the chunks are dropped; getSignedDownloadUrl answers and
\* the image is returned, or it throws into the catch block
uploadChunkCompleteCleanup(r) ==
    /\ req[r].pc = "complete_cleanup"
    /\ chunkStorage' = MapDelete(chunkStorage, req[r].session)
    /\ \E signed \in BOOLEAN :
          req' = [req EXCEPT ![r] = IF signed THEN Respond(@) ELSE Throw(@)]
    /\ heap' = Collect(heap, chunkStorage', req')
    /\ UNCHANGED <<uploadSession, image, blobs, sweep, accepted, validation, job, bus>>

\* lines 798-801, 817-820, 903-906: the awaited FAILED update takes effect
uploadChunkFailUpdate(r) ==
    /\ req[r].pc = "fail_update"
    /\ uploadSession' = [uploadSession EXCEPT ![req[r].session].status = FailedStatus]
    /\ req' = [req EXCEPT ![r].pc = "fail_cleanup"]
    /\ UNCHANGED <<chunkStorage, heap, image, blobs, sweep, accepted, validation, job, bus>>

\* lines 802-808, 821-826, 907-913: the chunks are dropped, the error is sent
uploadChunkFailCleanup(r) ==
    /\ req[r].pc = "fail_cleanup"
    /\ chunkStorage' = MapDelete(chunkStorage, req[r].session)
    /\ req' = [req EXCEPT ![r] = Respond(@)]
    /\ heap' = Collect(heap, chunkStorage', req')
    /\ UNCHANGED <<uploadSession, image, blobs, sweep, accepted, validation, job, bus>>

\* lines 929-935: the outer catch.  A session update that rejects outside
\* the completion sequence (the progress update of lines 756-762, or the
\* FAILED update inside the inner catch, lines 903-906) lands here: the error
\* is sent, the session row and chunkStorage are left as they are
uploadChunkCatch(r) ==
    /\ req[r].pc \in {"progress", "fail_update"}
    /\ req' = [req EXCEPT ![r] = Respond(@)]
    /\ heap' = Collect(heap, chunkStorage, req')
    /\ UNCHANGED <<uploadSession, chunkStorage, image, blobs, sweep, accepted, validation, job, bus>>

\* ---- cancelSession -------------------------------------------------------
\* lines 985-996: findUnique answers; for an unknown session the handler
\* answers 404 and nothing changes
\* (the request is one of `budget` requests)
cancelSessionFindIn(r, budget) ==
    /\ AcceptsWithin(r, budget)
    /\ \E sessionId \in SessionIds :
          req' = [req EXCEPT ![r] =
                    [IdleReq EXCEPT !.op = "cancel", !.pc = "cancel_update",
                                    !.session = sessionId]]
    /\ accepted' = accepted + 1
    /\ UNCHANGED <<uploadSession, chunkStorage, heap, image, blobs, sweep, validation, job, bus>>

cancelSessionFind(r) == cancelSessionFindIn(r, MaxAccepted)

\* lines 998-1002: the awaited FAILED update takes effect.  The uploads of
\* this session that are inside their completion sequence at this moment are
\* marked (a history mark, not program state).
cancelSessionUpdate(r) ==
    /\ req[r].pc = "cancel_update"
    /\ uploadSession' = [uploadSession EXCEPT ![req[r].session].status = CancelStatus]
    /\ req' = [q \in Reqs |->
                 IF q = r THEN [req[q] EXCEPT !.pc = "cancel_cleanup"]
                 ELSE IF /\ req[q].op = "upload"
                         /\ req[q].session = req[r].session
                         /\ req[q].pc \in BeforeCommit
                      THEN [req[q] EXCEPT !.cancelled = TRUE]
                      ELSE req[q]]
    /\ UNCHANGED <<chunkStorage, heap, image, blobs, sweep, accepted, validation, job, bus>>

\* lines 1004-1007: the chunks are dropped, success is sent
cancelSessionCleanup(r) ==
    /\ req[r].pc = "cancel_cleanup"
    /\ chunkStorage' = MapDelete(chunkStorage, req[r].session)
    /\ req' = [req EXCEPT ![r] = Respond(@)]
    /\ heap' = Collect(heap, chunkStorage', req')
    /\ UNCHANGED <<uploadSession, image, blobs, sweep, accepted, validation, job, bus>>

\* lines 1008-1014: the FAILED update rejects; the error is sent, the session
\* row and chunkStorage are left as they are
cancelSessionCatch(r) ==
    /\ req[r].pc = "cancel_update"
    /\ req' = [req EXCEPT ![r] = Respond(@)]
    /\ UNCHANGED <<uploadSession, chunkStorage, heap, image, blobs, sweep, accepted, validation, job, bus>>

\* ---- cleanupExpiredSessions ----------------------------------------------
\* time passes the expiresAt of a session (24 hours after its creation)
PassExpiry(s) ==
    /\ s \in SessionIds
    /\ ~uploadSession[s].expired
    /\ uploadSession' = [uploadSession EXCEPT ![s].expired = TRUE]
    /\ UNCHANGED <<chunkStorage, heap, image, blobs, req, sweep, accepted, validation, job, bus>>

\* lines 1022-1031: findMany({ expiresAt < now, status in [IN_PROGRESS, FAILED] })
SweepStatuses == {"IN_PROGRESS", "FAILED"}
ExpiredSessions ==
    {s \in SessionIds : uploadSession[s].expired /\ uploadSession[s].status \in SweepStatuses}

\* lines 1033-1035: the loop takes the next session and drops its chunks
cleanupDelete(s, pending) ==
    /\ chunkStorage' = MapDelete(chunkStorage, s)
    /\ sweep' = [pc |-> "update", pending |-> pending, current |-> s]
    /\ heap' = Collect(heap, chunkStorage', req)

\* lines 1022-1035: findMany answers and the loop starts on its first session
\* (the query has no orderBy: any order of the sessions)
cleanupFind ==
    /\ sweep.pc = "idle"
    /\ \E s \in ExpiredSessions : cleanupDelete(s, ExpiredSessions)
    /\ UNCHANGED <<uploadSession, image, blobs, req, accepted, validation, job, bus>>

\* lines 1037-1042: the awaited EXPIRED update takes effect, and the loop
\* goes on with the next session or ends
cleanupUpdate ==
    /\ sweep.pc = "update"
    /\ uploadSession' = [uploadSession EXCEPT ![sweep.current].status = ExpiredStatus]
    /\ LET rest == sweep.pending \ {sweep.current}
       IN  IF rest = {}
           THEN /\ sweep' = [pc |-> "idle", pending |-> {}, current |-> NoSessionId]
                /\ UNCHANGED <<chunkStorage, heap>>
           ELSE \E s \in rest : cleanupDelete(s, rest)
    /\ UNCHANGED <<image, blobs, req, accepted, validation, job, bus>>

\* lines 1045-1047: the EXPIRED update rejects; the loop is abandoned
cleanupCatch ==
    /\ sweep.pc = "update"
    /\ sweep' = [pc |-> "idle", pending |-> {}, current |-> NoSessionId]
    /\ UNCHANGED <<uploadSession, chunkStorage, heap, image, blobs, req, accepted, validation, job, bus>>

\* ---- the specification ---------------------------------------------------
Next ==
    \/ \E r \in Reqs : uploadChunkStore(r)
    \/ \E r \in Reqs : uploadChunkProgress(r)
    \/ \E r \in Reqs : uploadChunkCheck(r)
    \/ \E r \in Reqs : uploadChunkDupCheck(r)
    \/ \E r \in Reqs : uploadChunkS3Upload(r)
    \/ \E r \in Reqs : uploadChunkCreate(r)
    \/ \E r \in Reqs : uploadChunkCompleteUpdate(r)
    \/ \E r \in Reqs : uploadChunkCompleteCleanup(r)
    \/ \E r \in Reqs : uploadChunkFailUpdate(r)
    \/ \E r \in Reqs : uploadChunkFailCleanup(r)
    \/ \E r \in Reqs : uploadChunkCatch(r)
    \/ \E r \in Reqs : cancelSessionFind(r)
    \/ \E r \in Reqs : cancelSessionUpdate(r)
    \/ \E r \in Reqs : cancelSessionCleanup(r)
    \/ \E r \in Reqs : cancelSessionCatch(r)
    \/ \E s \in 1..MaxSessions : PassExpiry(s)
    \/ cleanupFind
    \/ cleanupUpdate
    \/ cleanupCatch

Spec == Init /\ [][Next]_vars

TypeOK ==
    /\ Len(uploadSession) <= MaxSessions
    /\ accepted \in Nat
    /\ \A s \in 1..MaxSessions : chunkStorage[s] \in ArrayIds \cup {NoArray}
    /\ \A s \in SessionIds : uploadSession[s].status \in Terminal \cup {"IN_PROGRESS"}

\* ---- one client, one session: the chunks arrive in a given order ----------
\* a client opens a session of Len(AppendOrder) chunks with its first append
\* and sends every next append after the answer to the one before
AppendOrder == <<1, 0, 2>>
Client == 1
scenarioAppend ==
    uploadChunkStoreIn(Client, Len(AppendOrder),
                       IF accepted = 0 THEN {NoSessionId} ELSE {1},
                       {Len(AppendOrder)},
                       IF accepted < Len(AppendOrder)
                       THEN {AppendOrder[accepted + 1]} ELSE {})

ScenarioNext ==
    \/ scenarioAppend
    \/ uploadChunkProgress(Client)
    \/ uploadChunkCheck(Client)
    \/ uploadChunkDupCheck(Client)
    \/ uploadChunkS3Upload(Client)
    \/ uploadChunkCreate(Client)
    \/ uploadChunkCompleteUpdate(Client)
    \/ uploadChunkCompleteCleanup(Client)
    \/ uploadChunkFailUpdate(Client)
    \/ uploadChunkFailCleanup(Client)
    \/ uploadChunkCatch(Client)

ScenarioSpec == Init /\ [][ScenarioNext]_vars

\* ---- appends and cancels on several sessions -------------------------------
\* FrameBudget requests, each an append or a cancel; every append is for a
\* session of FrameTotal chunks
FrameBudget == 3
FrameTotal == 2
frameAppend(r) ==
    uploadChunkStoreIn(r, FrameBudget, {NoSessionId} \cup SessionIds,
                       {FrameTotal}, 0..(FrameTotal - 1))
frameCancel(r) == cancelSessionFindIn(r, FrameBudget)

FrameNext ==
    \/ \E r \in Reqs : frameAppend(r)
    \/ \E r \in Reqs : frameCancel(r)
    \/ \E r \in Reqs : uploadChunkProgress(r)
    \/ \E r \in Reqs : uploadChunkCheck(r)
    \/ \E r \in Reqs : uploadChunkDupCheck(r)
    \/ \E r \in Reqs : uploadChunkS3Upload(r)
    \/ \E r \in Reqs : uploadChunkCreate(r)
    \/ \E r \in Reqs : uploadChunkCompleteUpdate(r)
    \/ \E r \in Reqs : uploadChunkCompleteCleanup(r)
    \/ \E r \in Reqs : uploadChunkFailUpdate(r)
    \/ \E r \in Reqs : uploadChunkFailCleanup(r)
    \/ \E r \in Reqs : uploadChunkCatch(r)
    \/ \E r \in Reqs : cancelSessionUpdate(r)
    \/ \E r \in Reqs : cancelSessionCleanup(r)
    \/ \E r \in Reqs : cancelSessionCatch(r)

FrameSpec == Init /\ [][FrameNext]_vars

\* ---- ImageController.uploadImage ------------------------------------------
\* lines 261-289: a heic upload is converted; when the conversion throws the
\* original buffer is kept
ProcessedBuffers(heic, buffer) ==
    {IF b = <<>> THEN buffer ELSE b : b \in ConvertOutcomes(heic, buffer)}

\* lines 278-281, 293-296: validateImage is skipped when the final mime type
\* is image/heic (the conversion did not change the buffer) or the name ends
\* in .heic
SkipsValidation(heicMime, heicName, buffer, processedBuffer) ==
    (heicMime /\ processedBuffer = buffer) \/ heicName

\* lines 250-343: the file is converted and validated; an invalid image is
\* answered 400.  (A request without a file is answered 400 and changes
\* nothing.)
uploadImageValidate(r) ==
    /\ Accepts(r)
    /\ \E fileByte \in Bytes, heicMime \in BOOLEAN, heicName \in BOOLEAN,
          verdict \in {"invalid", "valid", "valid_nohash"} :
         LET buffer == <<fileByte>>
             rec == [IdleReq EXCEPT !.op = "image"]
         IN  \E processedBuffer \in ProcessedBuffers(heicMime \/ heicName, buffer) :
               req' = [req EXCEPT ![r] =
                  IF SkipsValidation(heicMime, heicName, buffer, processedBuffer)
                  THEN [rec EXCEPT !.pc = "image_s3upload", !.hash = NoHash,
                                   !.s3Key = FreshKey]
                  ELSE CASE verdict = "invalid" -> IdleReq
                         [] verdict = "valid" ->
                              [rec EXCEPT !.pc = "image_dupcheck",
                                          !.hash = Hash(processedBuffer)]
                         [] verdict = "valid_nohash" ->
                              [rec EXCEPT !.pc = "image_s3upload", !.hash = NoHash,
                                          !.s3Key = FreshKey]]
    /\ accepted' = accepted + 1
    /\ UNCHANGED <<uploadSession, chunkStorage, heap, image, blobs, sweep, validation, job, bus>>

\* lines 345-360: the duplicate check answers; a duplicate is answered 400
uploadImageDupCheck(r) ==
    /\ req[r].pc = "image_dupcheck"
    /\ \E answered \in BOOLEAN :
         LET isDuplicate == checkForDuplicates(req[r].hash, answered)
         IN  req' = [req EXCEPT ![r] =
                        IF isDuplicate THEN IdleReq
                        ELSE [@ EXCEPT !.pc = "image_s3upload", !.s3Key = FreshKey]]
    /\ UNCHANGED <<uploadSession, chunkStorage, heap, image, blobs, sweep, accepted, validation, job, bus>>

\* lines 362-384: s3Service.uploadFile writes the blob or throws; then
\* getImageMetadata answers or throws (the outer catch answers 500)
uploadImageS3Upload(r) ==
    /\ req[r].pc = "image_s3upload"
    /\ \E uploaded \in BOOLEAN, metadata \in BOOLEAN :
          /\ req' = [req EXCEPT ![r] =
                       IF uploaded /\ metadata THEN [@ EXCEPT !.pc = "image_create"]
                       ELSE IdleReq]
          /\ blobs' = IF uploaded THEN blobs \cup {req[r].s3Key} ELSE blobs
    /\ UNCHANGED <<uploadSession, chunkStorage, heap, image, sweep, accepted, validation, job, bus>>

\* lines 386-441: prisma.image.create writes the record or throws; the
\* signed url is made and the image is answered
uploadImageCreate(r) ==
    /\ req[r].pc = "image_create"
    /\ \E ok \in BOOLEAN :
          image' = IF ok THEN image \cup {NewImage(req[r])} ELSE image
    /\ req' = [req EXCEPT ![r] = IdleReq]
    /\ UNCHANGED <<uploadSession, chunkStorage, heap, blobs, sweep, accepted, validation, job, bus>>

\* uploads of whole images together with chunked uploads (no cancel, no sweep)
UploadNext ==
    \/ \E r \in Reqs : uploadImageValidate(r)
    \/ \E r \in Reqs : uploadImageDupCheck(r)
    \/ \E r \in Reqs : uploadImageS3Upload(r)
    \/ \E r \in Reqs : uploadImageCreate(r)
    \/ \E r \in Reqs : uploadChunkStore(r)
    \/ \E r \in Reqs : uploadChunkProgress(r)
    \/ \E r \in Reqs : uploadChunkCheck(r)
    \/ \E r \in Reqs : uploadChunkDupCheck(r)
    \/ \E r \in Reqs : uploadChunkS3Upload(r)
    \/ \E r \in Reqs : uploadChunkCreate(r)
    \/ \E r \in Reqs : uploadChunkCompleteUpdate(r)
    \/ \E r \in Reqs : uploadChunkCompleteCleanup(r)
    \/ \E r \in Reqs : uploadChunkFailUpdate(r)
    \/ \E r \in Reqs : uploadChunkFailCleanup(r)
    \/ \E r \in Reqs : uploadChunkCatch(r)

UploadSpec == Init /\ [][UploadNext]_vars

\* ---- ImageProcessingService.validateImage --------------------------------
\* imageConfig (the defaults of the environment schema) and the thresholds
\* of validateImage; face sizes are in hundredths of the image area
MinWidth == 300
MinHeight == 300
MaxWidth == 4000
MaxHeight == 4000
MaxFileSize == 10485760
BlurThreshold == 150
AssumedBlurScore == 150
MinFaceSize == 15
MaxFaceSize == 80

AllowedFormats == {"jpeg", "jpg", "png", "heic"}
Absent == 0 - 1

\* what the outside world answers to one call: sharp decodes the buffer or
\* throws; the Laplacian computation gives a score or fails; Rekognition
\* answers with the area of each face it found or fails
BlurInputs ==
    {[failed |-> TRUE, score |-> 0]}
    \cup {[failed |-> FALSE, score |-> s] : s \in {0, 149, 150, 151}}
FaceInputs ==
    {[failed |-> TRUE, sizes |-> <<>>]}
    \cup {[failed |-> FALSE, sizes |-> z] :
            z \in {<<>>, <<0>>, <<14>>, <<15>>, <<50>>, <<80>>, <<81>>, <<50, 10>>, <<90, 95>>}}
ValidateInputs ==
    [decodable : BOOLEAN, width : {299, 300, 4001}, height : {299, 300, 4001},
     format : {"jpeg", "png", "heic", "heif", "gif"},
     size : {MaxFileSize, MaxFileSize + 1},
     blur : BlurInputs, faces : FaceInputs, buffer : {<<b>> : b \in Bytes}]

\* calculateBlurScore: the variance, or 0 from its own catch; it never throws
calculateBlurScore(blur) ==
    [threw |-> FALSE, score |-> IF blur.failed THEN 0 ELSE blur.score]

\* detectFaces: the number of faces and the largest area, or { 0, 0 } from
\* its own catch; it never throws
RECURSIVE MaxOf(_)
MaxOf(sizes) ==
    IF sizes = <<>> THEN 0
    ELSE LET rest == MaxOf(Tail(sizes))
         IN  IF Head(sizes) > rest THEN Head(sizes) ELSE rest
detectFaces(faces) ==
    IF faces.failed
    THEN [threw |-> FALSE, faceCount |-> 0, faceSize |-> 0]
    ELSE [threw |-> FALSE, faceCount |-> Len(faces.sizes), faceSize |-> MaxOf(faces.sizes)]

\* lines 47-75: the size and format checks
BasicErrors(m) ==
    (IF m.width < MinWidth \/ m.height < MinHeight THEN <<"too_small">> ELSE <<>>)
    \o (IF m.width > MaxWidth \/ m.height > MaxHeight THEN <<"too_large">> ELSE <<>>)
    \o (IF m.format \notin AllowedFormats THEN <<"invalid_format">> ELSE <<>>)

\* lines 77-94: the early exit for heic and heif
HeicResultAlwaysValid(errors, m) ==
    [isValid |-> TRUE, errors |-> errors, metadata |-> m]
HeicResult(errors, m) ==
    [isValid |-> errors = <<>>, errors |-> errors, metadata |-> m]

\* lines 103-129: the blur check
BlurErrors(b) ==
    IF ~b.threw /\ b.score < BlurThreshold THEN <<"blurry">> ELSE <<>>
BlurScore(b) == IF b.threw THEN AssumedBlurScore ELSE b.score

\* lines 137-171: the face rules, an if / else-if chain
FaceRuleInclusive(faceCount, faceSize) ==
    IF faceCount = 0 THEN <<"no_face">>
    ELSE IF faceCount > 1 THEN <<"multiple_faces">>
    ELSE IF faceSize <= MinFaceSize THEN <<"face_too_small">>
    ELSE IF faceSize >= MaxFaceSize THEN <<"face_too_large">>
    ELSE <<>>
FaceRule(faceCount, faceSize) ==
    IF faceCount = 0 THEN <<"no_face">>
    ELSE IF faceCount > 1 THEN <<"multiple_faces">>
    ELSE IF faceSize < MinFaceSize THEN <<"face_too_small">>
    ELSE IF faceSize > MaxFaceSize THEN <<"face_too_large">>
    ELSE <<>>
\* lines 131-180
FaceErrors(f) ==
    IF f.threw THEN <<"face_unavailable">> ELSE FaceRule(f.faceCount, f.faceSize)

\* lines 190-201: the catch of validateImage
CatchResult(m) ==
    [isValid |-> FALSE, errors |-> <<"processing_error">>, metadata |-> m]

\* lines 28-202
validateImage(in) ==
    LET initial == NoResult.metadata
        m == [initial EXCEPT !.width = in.width, !.height = in.height,
                             !.size = in.size, !.format = in.format]
        b == calculateBlurScore(in.blur)
        f == detectFaces(in.faces)
        errors == BasicErrors(m)
                  \o (IF m.size > MaxFileSize THEN <<"file_too_large">> ELSE <<>>)
                  \o BlurErrors(b) \o FaceErrors(f)
    IN  IF ~in.decodable THEN CatchResult(initial)
        ELSE IF m.format \in {"heic", "heif"} THEN HeicResult(BasicErrors(m), m)
        ELSE [isValid |-> errors = <<>>,
              errors |-> errors,
              metadata |-> [m EXCEPT !.blurScore = BlurScore(b),
                                     !.faceCount = IF f.threw THEN 0 ELSE f.faceCount,
                                     !.faceSize = IF f.threw THEN 0 ELSE f.faceSize,
                                     !.hash = Hash(in.buffer)]]

\* a caller hands a buffer to validateImage and gets the result
validateImageCall ==
    /\ validation.pc = "idle"
    /\ \E in \in ValidateInputs :
          validation' = [pc |-> "returned", input |-> in, result |-> validateImage(in)]
    /\ UNCHANGED <<uploadSession, chunkStorage, heap, image, blobs, accepted, req, sweep, job, bus>>

validateImageReturn ==
    /\ validation.pc = "returned"
    /\ validation' = NoValidation
    /\ UNCHANGED <<uploadSession, chunkStorage, heap, image, blobs, accepted, req, sweep, job, bus>>

ValidateNext == validateImageCall \/ validateImageReturn
ValidateSpec == Init /\ [][ValidateNext]_vars

\* ---- QueueService: the image-processing queue ------------------------------
\* the granularity of the clock of the model, in ms
TickMs == 250

\* lines 59-68: defaultJobOptions with QUEUE_MAX_ATTEMPTS and
\* QUEUE_BACKOFF_MS unset
DefaultAttempts == 3
DefaultBackoffMs == 1000
defaultJobOptionsFixedBackoff ==
    [attempts |-> DefaultAttempts,
     backoff |-> [type |-> "fixed", delay |-> DefaultBackoffMs]]
defaultJobOptions ==
    [attempts |-> DefaultAttempts,
     backoff |-> [type |-> "exponential", delay |-> DefaultBackoffMs]]

\* line 6: ImageJobType
JobNames == {"image-convert", "image-validate", "rekognition-analyze", "cleanup"}
\* lines 8-13: ImageConvertJobData.target
Targets(name) == IF name = "image-convert" THEN {"jpeg", "png"} ELSE {"none"}

\* the retry policy of the queue: an exponential backoff waits
\* delay * 2^(attemptsMade - 1) before the next attempt, a fixed one delay
Backoff(options, attemptsMade) ==
    IF options.backoff.type = "exponential"
    THEN options.backoff.delay * 2 ^ (attemptsMade - 1)
    ELSE options.backoff.delay

\* a job is added to imageQueue with the default options
enqueue ==
    /\ job.state = "none"
    /\ \E name \in JobNames : \E target \in Targets(name) :
          job' = [NoJob EXCEPT !.state = "waiting", !.name = name, !.target = target]
    /\ UNCHANGED <<uploadSession, chunkStorage, heap, image, blobs, accepted, req, sweep, validation, bus>>

\* a worker takes the job and runs the processor
workerTakes ==
    /\ job.state = "waiting"
    /\ job' = [job EXCEPT !.state = "active"]
    /\ UNCHANGED <<uploadSession, chunkStorage, heap, image, blobs, accepted, req, sweep, validation, bus>>

\* the processor returns its result
handlerSucceeds ==
    /\ job.state = "active"
    /\ job' = [job EXCEPT !.state = "completed", !.attemptsMade = @ + 1]
    /\ UNCHANGED <<uploadSession, chunkStorage, heap, image, blobs, accepted, req, sweep, validation, bus>>

\* the processor throws: the job is rescheduled after the backoff while
\* attempts remain, and is failed for good otherwise
handlerFails ==
    /\ job.state = "active"
    /\ LET attemptsMade == job.attemptsMade + 1
           delay == Backoff(defaultJobOptions, attemptsMade)
       IN  job' = IF attemptsMade < defaultJobOptions.attempts
                  THEN [job EXCEPT !.state = "delayed", !.attemptsMade = attemptsMade,
                                   !.remaining = delay, !.waited = Append(@, delay)]
                  ELSE [job EXCEPT !.state = "failed", !.attemptsMade = attemptsMade]
    /\ UNCHANGED <<uploadSession, chunkStorage, heap, image, blobs, accepted, req, sweep, validation, bus>>

\* time passes; a delayed job whose backoff is over waits for a worker again
tick ==
    /\ job.state = "delayed"
    /\ LET left == IF job.remaining > TickMs THEN job.remaining - TickMs ELSE 0
       IN  job' = [job EXCEPT !.remaining = left,
                              !.state = IF left = 0 THEN "waiting" ELSE "delayed"]
    /\ UNCHANGED <<uploadSession, chunkStorage, heap, image, blobs, accepted, req, sweep, validation, bus>>

\* lines 38-40: the listener of the queue's 'failed' event writes a warning
\* to the log
onFailed ==
    /\ job.state = "failed"
    /\ job.logged = "none"
    /\ job' = [job EXCEPT !.logged = "failed"]
    /\ UNCHANGED <<uploadSession, chunkStorage, heap, image, blobs, accepted, req, sweep, validation, bus>>

\* lines 42-44: the listener of the queue's 'completed' event writes a line
\* to the log
onCompleted ==
    /\ job.state = "completed"
    /\ job.logged = "none"
    /\ job' = [job EXCEPT !.logged = "completed"]
    /\ UNCHANGED <<uploadSession, chunkStorage, heap, image, blobs, accepted, req, sweep, validation, bus>>

QueueNext ==
    \/ enqueue
    \/ workerTakes
    \/ handlerSucceeds
    \/ handlerFails
    \/ tick
    \/ onFailed
    \/ onCompleted
QueueSpec == Init /\ [][QueueNext]_vars

\* ---- RedisService: the image-events channel -------------------------------
\* at most MaxPublished messages are put on the channel
MaxPublished == 3

\* lines 10-13: ImageEventType
ImageEventTypes ==
    {"image.conversion.started", "image.conversion.completed", "image.conversion.failed"}

\* lines 15-25: ImageEventPayload, every field of it optional (here id and
\* error, strings)
Payloads == {[id |-> "img", error |-> Undefined], [id |-> "img", error |-> "boom"]}
NoPayload == [id |-> Undefined, error |-> Undefined]

\* JSON.stringify leaves out a key whose value is undefined; JSON.parse gives
\* an object without the key, and reading the key gives undefined
JsonOmitted == "omitted"
JsonValue(v) == IF v = Undefined THEN JsonOmitted ELSE v
JsValue(t) == IF t = JsonOmitted THEN Undefined ELSE t

\* line 78: JSON.stringify({ type, payload, at: Date.now() })
Stringify(type, payload, at) ==
    [json |-> TRUE, type |-> type, id |-> JsonValue(payload.id),
     error |-> JsonValue(payload.error), at |-> at]
\* a text that is not JSON
Malformed == [json |-> FALSE, type |-> "", id |-> "", error |-> "", at |-> 0]

\* lines 88-91: JSON.parse(message)
Parse(message) ==
    [threw |-> ~message.json, type |-> message.type,
     payload |-> [id |-> JsValue(message.id), error |-> JsValue(message.error)]]

\* the server puts the n-th message of the channel on the connection of the
\* subscriber, if that connection is subscribed
Pushed(n) ==
    IF bus.subscribed
    THEN Append(bus.inbox, [kind |-> "message", handler |-> 0, n |-> n])
    ELSE bus.inbox

\* line 79: the promise of publisher.publish is returned as it is: its value
\* is the number of connections that received the message
\* (a publisher that would treat zero receivers as an error)
publishReturnThrowsOnZero(receivers) ==
    IF receivers = 0 THEN [result |-> "rejected", receivers |-> 0]
    ELSE [result |-> "returned", receivers |-> receivers]
publishReturn(receivers) == [result |-> "returned", receivers |-> receivers]
PublishRejected == [result |-> "rejected", receivers |-> 0]

\* lines 74-80: the event is serialised and published; the command reaches
\* the server, which hands the message to the subscribed connection and
\* answers with the number of receivers, or it does not (the connection is
\* down and the retries are used up) and the promise rejects
publishImageEvent ==
    /\ Len(bus.published) < MaxPublished
    /\ bus.lastPublish.seq < MaxPublished
    /\ \E type \in ImageEventTypes, payload \in Payloads, reached \in BOOLEAN :
          LET n == Len(bus.published) + 1
              message == Stringify(type, payload, n)
              receivers == IF bus.subscribed THEN 1 ELSE 0
              call == [seq |-> bus.lastPublish.seq + 1, reached |-> reached,
                       subscribed |-> bus.subscribed,
                       outcome |-> IF reached THEN publishReturn(receivers)
                                   ELSE PublishRejected]
          IN  bus' = IF reached
                     THEN [bus EXCEPT
                             !.published = Append(@, [text |-> message, type |-> type,
                                                      payload |-> payload]),
                             !.inbox = Pushed(n),
                             !.lastPublish = call]
                     ELSE [bus EXCEPT !.lastPublish = call]
    /\ UNCHANGED <<uploadSession, chunkStorage, heap, image, blobs, accepted, req, sweep, validation, job>>

\* another client of the server publishes a text that is not JSON on the
\* channel
foreignPublish ==
    /\ Len(bus.published) < MaxPublished
    /\ bus' = [bus EXCEPT
                 !.published = Append(@, [text |-> Malformed, type |-> "",
                                          payload |-> NoPayload]),
                 !.inbox = Pushed(Len(bus.published) + 1)]
    /\ UNCHANGED <<uploadSession, chunkStorage, heap, image, blobs, accepted, req, sweep, validation, job>>

\* line 85: subscriber.subscribe(channel) is sent and takes effect at the
\* server, which answers on the connection; the handler waits for the answer
subscribeSend(h) ==
    /\ bus.since[h] = NotSubscribed
    /\ bus' = [bus EXCEPT
                 !.subscribed = TRUE,
                 !.inbox = Append(@, [kind |-> "reply", handler |-> h, n |-> 0]),
                 !.since[h] = Len(bus.published)]
    /\ UNCHANGED <<uploadSession, chunkStorage, heap, image, blobs, accepted, req, sweep, validation, job>>

\* line 86: the continuation of the await adds the listener
subscribeAttach(h) ==
    /\ h \in bus.resolved
    /\ bus' = [bus EXCEPT !.resolved = @ \ {h}, !.listeners = Append(@, h)]
    /\ UNCHANGED <<uploadSession, chunkStorage, heap, image, blobs, accepted, req, sweep, validation, job>>

\* lines 86-96: the listener of handler h gets a message: the text is parsed
\* and the handler is called with its type and payload; what the parse or the
\* handler throws is caught and logged
CatchesAll == TRUE
onMessage(calls, h, n, message, throws) ==
    LET parsed == Parse(message)
        raised == parsed.threw \/ h \in throws
    IN  [calls |-> IF parsed.threw THEN calls
                   ELSE [calls EXCEPT ![h] =
                           Append(@, [n |-> n, type |-> parsed.type,
                                      payload |-> parsed.payload])],
         escaped |-> raised /\ ~CatchesAll]

\* subscriber.emit("message", channel, message): the listeners are called in
\* the order they were added; an exception that leaves a listener ends the
\* emit
RECURSIVE Emit(_, _, _, _, _)
Emit(calls, listeners, n, message, throws) ==
    IF listeners = <<>> THEN calls
    ELSE LET done == onMessage(calls, Head(listeners), n, message, throws)
         IN  IF done.escaped THEN done.calls
             ELSE Emit(done.calls, Tail(listeners), n, message, throws)

\* the subscriber connection reads what the server sent, in the order it was
\* sent: the answer to a subscribe resolves the promise the handler awaits,
\* a message is emitted to the listeners there are at this moment (the
\* handlers in `throws` throw)
receive ==
    /\ bus.inbox # <<>>
    /\ LET item == Head(bus.inbox)
       IN  IF item.kind = "reply"
           THEN bus' = [bus EXCEPT !.inbox = Tail(@), !.resolved = @ \cup {item.handler}]
           ELSE \E throws \in SUBSET Handlers :
                  bus' = [bus EXCEPT
                            !.inbox = Tail(@),
                            !.calls = Emit(@, bus.listeners, item.n,
                                           bus.published[item.n].text, throws)]
    /\ UNCHANGED <<uploadSession, chunkStorage, heap, image, blobs, accepted, req, sweep, validation, job>>

BusNext ==
    \/ publishImageEvent
    \/ foreignPublish
    \/ \E h \in Handlers : subscribeSend(h)
    \/ \E h \in Handlers : subscribeAttach(h)
    \/ receive

BusSpec == Init /\ [][BusNext]_vars

\* ---- uploads, the queue and the event bus together ------------------------
\* one client sends whole images and one-chunk sessions, one request after
\* the other; some producer adds a job to the queue; the handlers, the worker
\* and the listeners of the queue do their steps.  Nothing in the program
\* adds a job or calls publishImageEvent.
pipelineAppend ==
    uploadChunkStoreIn(Client, MaxAccepted, {NoSessionId}, {MinTotalChunks},
                       {MinChunkIndex})

PipelineUpload ==
    \/ uploadChunkProgress(Client)
    \/ uploadChunkCheck(Client)
    \/ uploadChunkDupCheck(Client)
    \/ uploadChunkS3Upload(Client)
    \/ uploadChunkCreate(Client)
    \/ uploadChunkCompleteUpdate(Client)
    \/ uploadChunkCompleteCleanup(Client)
    \/ uploadChunkFailUpdate(Client)
    \/ uploadChunkFailCleanup(Client)
    \/ uploadChunkCatch(Client)
    \/ uploadImageDupCheck(Client)
    \/ uploadImageS3Upload(Client)
    \/ uploadImageCreate(Client)

PipelineQueue ==
    \/ workerTakes
    \/ handlerSucceeds
    \/ handlerFails
    \/ tick
    \/ onFailed
    \/ onCompleted

PipelineNext ==
    \/ pipelineAppend
    \/ uploadImageValidate(Client)
    \/ enqueue
    \/ PipelineUpload
    \/ PipelineQueue

\* the event loop runs every continuation that is ready, and the worker
\* every job that waits; requests and jobs arrive when they arrive
PipelineSpec ==
    Init /\ [][PipelineNext]_vars /\ WF_vars(PipelineUpload) /\ WF_vars(PipelineQueue)

\* ---- the claims ----------------------------------------------------------
\* every index 0..totalChunks-1 of the array holds a received chunk
AllReceived(arr, totalChunks) ==
    \A i \in 0..(totalChunks - 1) : i < Len(arr) /\ arr[i + 1] # Hole

\* the step in which handler r leaves the completeness check
ChecksComplete(r) == req[r].pc = "check" /\ req'[r].pc # "check"
\* ... and goes on to reassemble and validate rather than answer progress
TreatedComplete(r) == req'[r].pc \in {"fail_update", "dupcheck", "s3upload"}

\* the step in which handler r stores the chunk of an accepted request
StoresChunk(r) == req[r].pc = "idle" /\ req'[r].op = "upload" /\ req'[r].pc = "progress"

Quiescent(s) == \A r \in Reqs : InFlight(r) => req[r].session # s

\* C1: an append is treated as completing the session if and only if, after
\* the chunk is stored, every index 0..totalChunks-1 of the session holds a
\* received chunk.
C1_CompleteIffAllReceived ==
    [][\A r \in Reqs :
         ChecksComplete(r) =>
            (TreatedComplete(r) <=>
               AllReceived(heap[req[r].chunks],
                           uploadSession[req[r].session].totalChunks))]_vars

\* C2: in every reachable state the stored received-chunk count of a session
\* is at most its totalChunks.
C2_CountWithinTotal ==
    \A s \in SessionIds : uploadSession[s].uploadedChunks <= uploadSession[s].totalChunks

\* C3: at most one request per session observes the session complete and runs
\* the reassemble-validate-persist sequence: no two handlers are inside the
\* sequence for the same session.
C3_OneSequencePerSession ==
    \A r1, r2 \in Reqs :
        (/\ r1 # r2
         /\ req[r1].op = "upload" /\ req[r2].op = "upload"
         /\ req[r1].pc \in InSequence /\ req[r2].pc \in InSequence)
        => req[r1].session # req[r2].session

\* C4: an append that names an unknown session id, or a session that is
\* already COMPLETED, FAILED or EXPIRED, stores no chunk, creates no session
\* and changes no session.
NamesDeadSession(r) ==
    \/ req'[r].sessionId = UnknownId
    \/ /\ req'[r].sessionId \in SessionIds
       /\ uploadSession[req'[r].sessionId].status \in Terminal
C4_DeadSessionRejected ==
    [][\A r \in Reqs :
         (StoresChunk(r) /\ NamesDeadSession(r)) =>
            UNCHANGED <<uploadSession, chunkStorage, heap>>]_vars

\* C5: an append whose chunkIndex is outside [0, totalChunks) is rejected
\* with no state mutation: no session created, no chunk stored.
C5_IndexOutOfRangeRejected ==
    [][\A r \in Reqs :
         (/\ StoresChunk(r)
          /\ req'[r].chunkIndex >= uploadSession'[req'[r].session].totalChunks) =>
            UNCHANGED <<uploadSession, chunkStorage, heap>>]_vars

\* C6: the buffer that is reassembled and handed to validation is the
\* concatenation of the chunks 0..totalChunks-1 in index order, and reassembly
\* is never attempted while some index is missing.
C6_ReassemblesExactlyTheChunks ==
    [][\A r \in Reqs :
         (ChecksComplete(r) /\ TreatedComplete(r)) =>
            LET arr == heap[req[r].chunks]
                totalChunks == uploadSession[req[r].session].totalChunks
            IN  /\ AllReceived(arr, totalChunks)
                /\ BufferConcat(arr) = [i \in 1..totalChunks |-> arr[i]]]_vars

\* C7: re-appending an already received chunk with identical bytes is
\* idempotent: the append that re-sends the bytes a session was completed
\* with is answered like the first one, not with the duplicate error that
\* marks the session FAILED.
C7_ReplayIdempotent ==
    \A r \in Reqs : req[r].replay => req[r].resp # "duplicate"

\* C8: once a session is COMPLETED, FAILED or EXPIRED no operation sets its
\* status back to IN_PROGRESS.
C8_StatusMonotonic ==
    [][\A s \in SessionIds :
         uploadSession[s].status \in Terminal =>
            uploadSession'[s].status # "IN_PROGRESS"]_vars

\* a session that was COMPLETED (it has a storage key) has been cancelled,
\* and the cancel has written FAILED, not IN_PROGRESS
C8_Witness ==
    \E r \in Reqs :
        /\ req[r].op = "cancel" /\ req[r].pc = "cancel_cleanup"
        /\ uploadSession[req[r].session].s3Key # NoKey
        /\ uploadSession[req[r].session].status = "FAILED"

\* C9: whenever a session is COMPLETED, FAILED or EXPIRED and no request for
\* it is mid-execution, chunkStorage holds no entry for it.
C9_NoChunksWhenTerminal ==
    \A s \in SessionIds :
        (uploadSession[s].status \in Terminal /\ Quiescent(s)) =>
            chunkStorage[s] = NoArray

\* C10: when cancelSession runs while the completion sequence of the session
\* is in flight, the result of the sequence is discarded: no image record is
\* committed and the status is not overwritten with COMPLETED.
C10_CancelDiscardsResult ==
    \A r \in Reqs :
        req[r].cancelled => req[r].pc \notin {"complete_update", "complete_cleanup"}

\* C11: after the sweep a session that was expired and IN_PROGRESS or FAILED
\* is EXPIRED with its chunks released, and a session that has become EXPIRED
\* never again has chunk bytes in chunkStorage.
C11_ExpiredHoldsNoChunks ==
    \A s \in SessionIds :
        uploadSession[s].status = "EXPIRED" => chunkStorage[s] = NoArray

\* C12: with totalChunks = 3 and the appends 1, 0, 2 the first two appends
\* are answered with progress (completed = false) and the third is treated
\* as completing the session.
C12_OutOfOrderCompletes ==
    [][ChecksComplete(Client) =>
         IF accepted < Len(AppendOrder)
         THEN req'[Client].pc = "idle"
         ELSE TreatedComplete(Client)]_vars

\* C13: an image whose content hash is the hash of a committed record is
\* rejected as a duplicate: no handler writes the blob of, or creates the
\* record for, a hash that an image record already carries.
WritesBlob(r) == req[r].pc = "s3upload" /\ blobs' # blobs
CreatesImage(r) == req[r].pc = "create" /\ image' # image
C13_DuplicateNeverWritten ==
    [][\A r \in Reqs :
         (WritesBlob(r) \/ CreatesImage(r)) =>
            ~(req[r].hash # NoHash /\ \E im \in image : im.hash = req[r].hash)]_vars

Returned == validation.pc = "returned"
NormalPath ==
    /\ Returned
    /\ validation.input.decodable
    /\ validation.input.format \notin {"heic", "heif"}
HasError(reason) ==
    \E i \in 1..Len(validation.result.errors) : validation.result.errors[i] = reason

\* C15: every result of validateImage has isValid true if and only if its
\* errors list is empty.
C15_ValidIffNoErrors ==
    Returned => (validation.result.isValid <=> validation.result.errors = <<>>)

\* the heic early exit has returned a rejected image: errors and isValid false
C15_Witness ==
    /\ Returned
    /\ validation.input.decodable /\ validation.input.format = "heic"
    /\ validation.result.errors # <<>>
    /\ ~validation.result.isValid

\* C16: when the sharpness computation fails, the image is not rejected for
\* blur: a passing score is assumed and no blur reason is added.
C16_BlurFailureAssumedSharp ==
    (NormalPath /\ validation.input.blur.failed) =>
        /\ ~HasError("blurry")
        /\ validation.result.metadata.blurScore >= BlurThreshold

\* C17: when the face detection provider fails, the verdict is a reject and
\* the reason is the 'face detection unavailable' one.
C17_FaceFailureUnavailable ==
    (NormalPath /\ validation.input.faces.failed) =>
        /\ ~validation.result.isValid
        /\ HasError("face_unavailable")

\* C18: for a decodable non-heic image the face gate rejects exactly when
\* faceCount = 0 (no face), faceCount > 1 (multiple faces), or faceCount = 1
\* with the largest face below 15% (too small) or above 80% (too large) of
\* the image; a single face within [15%, 80%] adds no face reason and at most
\* one face reason is ever added.
FaceReasons == {"no_face", "multiple_faces", "face_too_small", "face_too_large",
                "face_unavailable"}
FaceReasonsIn(errors) == {i \in 1..Len(errors) : errors[i] \in FaceReasons}
C18_FaceGate ==
    NormalPath =>
        LET faceCount == validation.result.metadata.faceCount
            faceSize == validation.result.metadata.faceSize
        IN  /\ HasError("no_face") <=> faceCount = 0
            /\ HasError("multiple_faces") <=> faceCount > 1
            /\ HasError("face_too_small") <=> (faceCount = 1 /\ faceSize < 15)
            /\ HasError("face_too_large") <=> (faceCount = 1 /\ faceSize > 80)
            /\ ~HasError("face_unavailable")
            /\ Cardinality(FaceReasonsIn(validation.result.errors)) <= 1

\* a single face of exactly 15% of the image has passed the face gate
C18_Witness ==
    /\ NormalPath
    /\ validation.input.faces = [failed |-> FALSE, sizes |-> <<15>>]
    /\ FaceReasonsIn(validation.result.errors) = {}

\* C19: every result of validateImage carries the content hash of the buffer
\* in its metadata, whatever the verdict and whichever steps ran.
C19_HashAlwaysPopulated ==
    Returned => validation.result.metadata.hash = Hash(validation.input.buffer)

\* C20: a job enqueued with the default options whose handler fails on every
\* attempt is executed exactly 3 times before it is failed for good, and the
\* delays before its retries are 1000 ms, then 2000 ms; no job is executed
\* more than 3 times.
C20_ThreeAttemptsExponential ==
    /\ job.attemptsMade <= 3
    /\ job.state = "failed" => (job.attemptsMade = 3 /\ job.waited = <<1000, 2000>>)
    /\ (job.state = "delayed" /\ job.attemptsMade = 1) => job.waited = <<1000>>

\* a job has failed three times and is failed for good
C20_Witness ==
    job.state = "failed" /\ job.attemptsMade = 3

\* the distinct chunk indices the client has sent so far
ReceivedIndices == {AppendOrder[i] : i \in 1..accepted}

\* C25: the progress stored on the session by an append (and reported by
\* uploadChunk and getSessionStatus) equals the number of distinct chunk
\* indices received so far, for every arrival order, and never decreases
\* across successive appends.
C25_ProgressCountsDistinct ==
    [][(req[Client].pc = "progress" /\ req'[Client].pc = "check") =>
         LET s == req[Client].session
         IN  /\ uploadSession'[s].uploadedChunks = Cardinality(ReceivedIndices)
             /\ uploadSession'[s].uploadedChunks >= uploadSession[s].uploadedChunks]_vars

\* the step is a step of handler r; the session it works on
Acts(r) == req'[r].pc # req[r].pc
SessionOf(r) == IF req[r].pc = "idle" THEN req'[r].session ELSE req[r].session
\* the chunks chunkStorage holds for session s
StoredChunks(map, h, s) == IF map[s] = NoArray THEN <<>> ELSE h[map[s]]

\* C26: a step of uploadChunk or cancelSession on session A leaves the stored
\* chunks, the received count and the status of every other session B as they
\* were, under every interleaving.
C26_OtherSessionsUnchanged ==
    [][\A r \in Reqs :
         Acts(r) =>
            \A B \in SessionIds :
                B # SessionOf(r) =>
                   /\ uploadSession'[B] = uploadSession[B]
                   /\ StoredChunks(chunkStorage', heap', B)
                        = StoredChunks(chunkStorage, heap, B)]_vars

\* a cancel of session A has written FAILED while another session B is in
\* progress and holds a chunk
C26_Witness ==
    \E r \in Reqs : \E B \in SessionIds :
        /\ req[r].op = "cancel" /\ req[r].pc = "cancel_cleanup"
        /\ uploadSession[req[r].session].status = "FAILED"
        /\ B # req[r].session
        /\ uploadSession[B].status = "IN_PROGRESS"
        /\ chunkStorage[B] # NoArray

\* the completing append of handler r was rejected by validateImage
ValidationFailed(r) == req[r].op = "upload" /\ req[r].resp = "validation_failed"

\* C27: when the append that completes a session yields an image that
\* validateImage rejects, the handler writes no blob and creates no image
\* record, and it answers only after it has marked the session FAILED and
\* released the chunks of the session (the answer is then the 'Image
\* validation failed' error).
C27_ValidationFailureFailsSession ==
    [][\A r \in Reqs :
         (ValidationFailed(r) /\ Acts(r)) =>
            /\ blobs' = blobs
            /\ image' = image
            /\ req'[r].pc = "idle" =>
                  /\ req[r].pc = "fail_cleanup"
                  /\ chunkStorage'[req[r].session] = NoArray]_vars

\* C28: COMPLETED is absorbing: once a session is COMPLETED no later
\* operation (an append or a replayed append for it, cancelSession,
\* cleanupExpiredSessions) changes its status or its recorded storage key.
C28_CompletedAbsorbing ==
    [][\A s \in SessionIds :
         uploadSession[s].status = "COMPLETED" =>
            /\ uploadSession'[s].status = "COMPLETED"
            /\ uploadSession'[s].s3Key = uploadSession[s].s3Key]_vars

\* validateImage computes metadata.hash only on the path on which the blur
\* check and the face check ran (imageProcessingService.ts, lines 103-183),
\* and the callers check for duplicates only when the hash is there: a record
\* without a hash is one whose bytes passed neither the gates nor the check
GatesEvaluated(im) == im.hash # NoHash

\* C29: an image record is created with status VALIDATED only for bytes on
\* which the sharpness gate and the face gate were evaluated and passed and
\* whose content hash was checked against the existing records, on every
\* upload path and for every declared format, HEIC included.
C29_ValidatedOnlyAfterGates ==
    \A im \in image : im.status = "VALIDATED" => GatesEvaluated(im)

\* C30: blob storage and records stay consistent across chunked completion:
\* once every request has finished, every blob written by uploadChunk is
\* referenced by an image record (no blob is left by a completion sequence
\* that ended with the session marked FAILED).
C30_NoOrphanBlob ==
    (\A r \in Reqs : Free(r)) =>
        \A k \in blobs : \E im \in image : im.s3Key = k

\* the image.conversion.failed events that have been put on the event bus
FailureEvents ==
    {n \in 1..Len(bus.published) : bus.published[n].type = "image.conversion.failed"}

\* C21: when a job's handler fails, the job is rescheduled if attempts remain
\* and is otherwise failed for good; each terminal failure emits an
\* image.conversion.failed event on the event bus exactly once, and a failure
\* that will be retried emits none.
C21_TerminalFailureEmitsEvent ==
    /\ job.state = "delayed" => job.attemptsMade < defaultJobOptions.attempts
    /\ job.state # "failed" => FailureEvents = {}
    /\ job.logged = "failed" => Cardinality(FailureEvents) = 1

\* the step is a call of publishImageEvent
Publishes == bus'.lastPublish.seq # bus.lastPublish.seq

Processed ==
    Len(bus.published)
    - Cardinality({i \in 1..Len(bus.inbox) : bus.inbox[i].kind = "message"})

\* the events handler h is due: the events published after its subscription
\* took effect that the subscriber connection has read
Due(h) ==
    {n \in (bus.since[h] + 1)..Processed : bus.published[n].text.json}

\* C24: every handler registered through subscribeToImageEvents is invoked,
\* with the published type and payload, for every event published while it is
\* subscribed, in publish order, and for no event published before it
\* subscribed; a malformed message or a throwing handler does not stop the
\* delivery of later events.
C24_EverySubscribedEventDelivered ==
    \A h \in Handlers :
        bus.since[h] # NotSubscribed =>
            LET calls == bus.calls[h]
            IN  /\ {calls[i].n : i \in 1..Len(calls)} = Due(h)
                /\ \A i, j \in 1..Len(calls) : i < j => calls[i].n <= calls[j].n
                /\ \A i \in 1..Len(calls) :
                      /\ calls[i].type = bus.published[calls[i].n].type
                      /\ calls[i].payload = bus.published[calls[i].n].payload

\* an upload was validated and its record is persisted
Persisted == image # {}
\* a job has been added to the queue
Enqueued == job.state # "none"
\* a lifecycle event has been put on the event bus
LifecyclePublished ==
    \E n \in 1..Len(bus.published) : bus.published[n].type \in ImageEventTypes

\* C22: every upload whose validation succeeds and whose record is persisted
\* is followed by a job being enqueued on the queue, and every job completion
\* is followed by a lifecycle event being published on the event bus.
C22_UploadLeadsToJobAndEvent ==
    /\ Persisted ~> Enqueued
    /\ (job.state = "completed") ~> LifecyclePublished

====
